---- MODULE Spec2Model ----
(***************************************************************************)
(* pyramid_torque_engine: the work status / activity event ledger of       *)
(* orm.py and the state change dispatch of subscribe.py.                   *)
(*                                                                         *)
(* Strings are sequences of tokens, so that splitting a namespaced event   *)
(* on ":" is computed and not assumed: "state:CREATED" is                  *)
(* <<"state", ":", "CREATED">>.  Python's None is the empty sequence where  *)
(* a string is expected and 0 where a row id is expected (ids start at 1).  *)
(***************************************************************************)
EXTENDS Integers, Sequences, FiniteSets, TLC

\* ------------------------------------------------------------------------
\* Bounds
\* ------------------------------------------------------------------------
MaxStatuses == 3
MaxEvents == 1
MaxClock == 2
MaxSubscriptions == 2
\* The delivery specification runs the ledger and the dispatcher together.
MaxDeliveryStatuses == 2
MaxDeliverySubscriptions == 1
\* Association subclasses created by the mixin's declared attributes.
MaxAssociationClasses == 4
\* Requests the application serves.
MaxRequests == 2
\* Longest event type string, in tokens.
MaxTypeLen == 3

\* ------------------------------------------------------------------------
\* Values the environment supplies
\* ------------------------------------------------------------------------
StateCreated == <<"state", ":", "CREATED">>
StateActive == <<"state", ":", "ACTIVE">>

ActionDecline == <<"action", ":", "DECLINE">>

\* Status values passed to set_work_status / get_work_status.
StatusValues == {StateCreated, StateActive}

\* A name with a second colon: 'state:quote:SENT'.
StateQuoteSent == <<"state", ":", "quote", ":", "SENT">>

\* Namespaced events handlers are registered for.
NamespacedEvents == {StateCreated, StateActive, ActionDecline, StateQuoteSent}

\* None where a string is expected (the `value=None` default of
\* get_work_status, the default of `request.json.get`).
NoneStr == <<>>

\* None where a row or a row id is expected (NULL foreign key, no result).
NoneId == 0

\* Entities that mix in WorkStatusMixin.
Parents == {"job1", "job2"}

\* What `request.context` can be: a parent, a resource without the mixin,
\* or None.
NoneContext == "None"
Contexts == Parents \cup {"page", NoneContext}

\* Interfaces subscribers are registered against, and the interfaces each
\* context provides, most specific first (its resolution order).
Markers == {"IJob", "IResource"}
providedBy(context) ==
    IF context \in Parents THEN <<"IJob", "IResource">>
    ELSE IF context = NoneContext THEN <<>>
    ELSE <<"IResource">>

\* Handler functions, and what a call of one can return.
Handlers == {"notify_user", "log_change"}
NoneResult == "None"
HandlerReturns == {NoneResult, "ok", "empty"}

\* Parent classes (they mix WorkStatusMixin in) and their
\* `singular_class_slug`.
ParentClasses == {"Job", "Quote"}
singular_class_slug(cls) == IF cls = "Job" THEN "job" ELSE "quote"

\* Dotted names of user classes, and the `__tablename__` of each.
DefaultUserClass == "pyramid_simpleauth.model.User"
UserClasses == {DefaultUserClass, "app.model.Account"}
tablename(user_cls) == IF user_cls = DefaultUserClass THEN "auth_users" ELSE "accounts"

\* The strings an event type is set to: every string of at most MaxTypeLen
\* tokens, colons included.
TypeTokens == {"job", "confirmed", ":"}
TypeInputs == UNION {[1..n -> TypeTokens] : n \in 0..MaxTypeLen}

\* None in a unicode column; unicode.format renders it as 'None'.
NoneColumn == <<"None">>

\* No ActivityEventAssociation, and the associations an event can have: one
\* whose backref `parent` is a parent, or one without parent.
NoAssociation == [id |-> NoneId, parent |-> NoneContext]
EventAssociations == [id : {1}, parent : Parents \cup {NoneContext}]

\* Users an event can have.
Users == {1}

\* The settings keys orm.py names, and settings as a function from them to a
\* dotted name or to "" for a key that is not in the dict.
SettingsKeys == {"engine.user_class", "torque_engine.user_class"}
NoSettings == [key \in SettingsKeys |-> ""]
SettingsInputs == [SettingsKeys -> UserClasses \cup {""}]

VARIABLES
    now,                        \* last value datetime.utcnow() returned
    activity_events,            \* ids of the rows of `activity_events`
    work_status_associations,   \* ids of the rows of `work_status_associations`
    work_statuses,              \* rows of `work_statuses`, indexed by id
    work_status_association_id, \* parent -> its work_status_association_id column
    modified,                   \* parent -> its `modified` column
    appended,                   \* parent -> its set_work_status calls, in call order:
                                \*   the id of the row returned and the arguments
    lastCall,                   \* the last read operation and what it returned
    registry,                   \* the subscribers registered, in registration order
    disp,                       \* the StateChangeHandler call in progress or last ended
    activity_event,             \* an ActivityEvent instance: its columns and relations
    eventCall,                  \* the last attribute access on it and its outcome
    association_classes,        \* the association subclasses created, in creation order
    parent_classes,             \* parent class -> its ActivityEventAssociation and
                                \*   WorkStatusAssociation attributes
    app                         \* the application: settings, ActivityEvent's patched
                                \*   attributes, mapper configuration, requests served

ledgerVars == <<now, activity_events, work_status_associations, work_statuses,
                work_status_association_id, modified, appended>>

requestVars == <<ledgerVars, lastCall, registry, disp>>

eventVars == <<activity_event, eventCall>>

classVars == <<association_classes, parent_classes>>

vars == <<now, activity_events, work_status_associations, work_statuses,
          work_status_association_id, modified, appended, lastCall,
          registry, disp, activity_event, eventCall, association_classes,
          parent_classes, app>>

\* ------------------------------------------------------------------------
\* Ledger helpers (orm.py)
\* ------------------------------------------------------------------------
\* datetime.utcnow(): the wall clock read again; it has not gone back and it
\* may not have advanced since the last read.
utcnow == {t \in {now, now + 1} : t <= MaxClock}

StatusIds == DOMAIN work_statuses

Max(S) == CHOOSE x \in S : \A y \in S : y <= x
Min(S) == CHOOSE x \in S : \A y \in S : x <= y

\* InsertStatus without the one-to-one backref: the row that named the event
\* before keeps it.
InsertStatusKeepingEvent(association_id, value, event, created) ==
    Append(work_statuses, [value |-> value,
                           association_id |-> association_id,
                           event_id |-> event,
                           created |-> created])

\* WorkStatus(value=value, event=event) flushed with the given association:
\* the INSERT takes `created` from the column default, and the one-to-one
\* backref `event.work_status` moves to the new row, which clears `event` on
\* the row that had it before.
InsertStatus(association_id, value, event, created) ==
    LET cleared == [i \in StatusIds |->
                      IF event # NoneId /\ work_statuses[i].event_id = event
                      THEN [work_statuses[i] EXCEPT !.event_id = NoneId]
                      ELSE work_statuses[i]]
    IN Append(cleared, [value |-> value,
                        association_id |-> association_id,
                        event_id |-> event,
                        created |-> created])

\* The rows `query.filter_by(association_id=...)[.filter_by(value=...)]`
\* selects.  filter_by with None compares with IS NULL, so a parent whose
\* work_status_association_id is NULL selects the rows whose association_id
\* is NULL.
MatchingStatuses(parent, value) ==
    {i \in StatusIds :
        /\ work_statuses[i].association_id = work_status_association_id[parent]
        /\ (value # NoneStr => work_statuses[i].value = value)}

\* `order_by(model_cls.created.desc())` then `first()`.  The ORDER BY names
\* `created` only, so among rows with the same greatest `created` the
\* database returns whichever it likes: the set of possible results.
FirstByCreatedDesc(rows) ==
    IF rows = {} THEN {NoneId}
    ELSE {i \in rows : \A j \in rows :
             work_statuses[j].created <= work_statuses[i].created}

get_work_status(parent, value) == FirstByCreatedDesc(MatchingStatuses(parent, value))

\* ------------------------------------------------------------------------
\* Dispatch helpers (subscribe.py)
\* ------------------------------------------------------------------------
\* value.rsplit(':', 1)[0]: the split made at the last colon.
SplitHeadAtLastColon(value) ==
    LET colons == {i \in 1..Len(value) : value[i] = ":"}
    IN IF colons = {} THEN value ELSE SubSeq(value, 1, Max(colons) - 1)

\* value.split(':')[0]
SplitHead(value) ==
    LET colons == {i \in 1..Len(value) : value[i] = ":"}
    IN IF colons = {} THEN value ELSE SubSeq(value, 1, Min(colons) - 1)

\* What the `event_id` field of a request body can hold.  `n` is the number
\* an int, a string of digits or a float (n + 0.5) stands for.
EventIdNumbers == 0..MaxEvents
EventIdInputs ==
    [kind : {"int", "digits", "float"}, n : EventIdNumbers]
    \cup [kind : {"absent", "word", "list", "inf"}, n : {0}]
NoEventId == [kind |-> "absent", n |-> 0]

\* int(candidate): the number, or the exception int() raises.
int(candidate) ==
    CASE candidate.kind \in {"int", "digits", "float"} ->
            [exc |-> "", value |-> candidate.n]
      [] candidate.kind \in {"absent", "list"} ->
            [exc |-> "TypeError", value |-> 0]
      [] candidate.kind = "word" ->
            [exc |-> "ValueError", value |-> 0]
      [] candidate.kind = "inf" ->
            [exc |-> "OverflowError", value |-> 0]

\* repo.LookupActivityEvent: the event with that id, or None.
lookup(event_id) == IF event_id \in activity_events THEN event_id ELSE NoneId

\* request.json.get(param, None) for the string fields of the body.
JsonGet(json, param) ==
    IF param = <<"state">> THEN json.state
    ELSE IF param = <<"action">> THEN json.action
    ELSE NoneStr

\* GetActivityEvent.__call__: the outcomes of `request.activity_event`.
GetActivityEvent(request) ==
    LET parsed == int(request.json.event_id)
        found == IF parsed.exc = "" THEN lookup(parsed.value) ELSE NoneId
        \* getattr(request.context, 'work_status', None)
        statuses == IF request.context \in Parents
                    THEN get_work_status(request.context, NoneStr)
                    ELSE {NoneId}
    IN IF parsed.exc \notin {"", "TypeError", "ValueError"}
       THEN {[exc |-> parsed.exc, event |-> NoneId]}
       ELSE IF found # NoneId
       THEN {[exc |-> "", event |-> found]}
       ELSE IF request.context # NoneContext
       THEN {[exc |-> "",
              event |-> IF status # NoneId
                        THEN work_statuses[status].event_id
                        ELSE NoneId] : status \in statuses}
       ELSE {[exc |-> "", event |-> NoneId]}

\* subscriptions without the lookup by interface: every subscriber, once for
\* each interface the context provides.
subscriptionsOfEveryInterface(provided, reg) ==
    [k \in 1..(Len(provided) * Len(reg)) |-> ((k - 1) % Len(reg)) + 1]

\* registry.adapters.subscriptions([providedBy(context)], None): the indexes
\* of the subscribers registered against an interface the context provides,
\* most general interface first, registration order within one interface.
RECURSIVE subscriptions(_, _)
subscriptions(provided, reg) ==
    IF provided = <<>> THEN <<>>
    ELSE subscriptions(Tail(provided), reg) \o
         SelectSeq([i \in 1..Len(reg) |-> i],
                   LAMBDA i : reg[i].context = Head(provided))

\* NotNone with `if item` for `if item is not None`: an empty result is
\* dropped as well.
NotNoneByTruth(results) ==
    SelectSeq(results, LAMBDA item : item \notin {NoneResult, "empty"})

\* `[item for item in results if item is not None]`
NotNone(results) == SelectSeq(results, LAMBDA item : item # NoneResult)

Requests ==
    [context : Contexts,
     json : [state : StatusValues \cup {NoneStr},
             action : {ActionDecline, NoneStr},
             event_id : EventIdInputs]]

NoRequest == [context |-> NoneContext,
              json |-> [state |-> NoneStr, action |-> NoneStr,
                        event_id |-> NoEventId]]

\* ------------------------------------------------------------------------
\* Init
\* ------------------------------------------------------------------------
\* ActivityEvent(): no column set, no association, no user.
NewEvent == [target |-> NoneColumn, action |-> NoneColumn,
             assocation |-> NoAssociation, user |-> NoneId]

NoJson == [type |-> NoneStr, parent |-> NoneContext, user |-> NoneId]
NoEventCall == [op |-> "none", value |-> NoneStr, exc |-> "",
                type_ |-> NoneStr, parent |-> NoneContext, json |-> NoJson]

\* A parent class before its declared attributes are evaluated.
NoAssociationClasses == [ActivityEventAssociation |-> 0, WorkStatusAssociation |-> 0]

\* The application before `config.include`: nothing patched, mappers not
\* configured, not serving.
Unconfigured == [phase |-> "starting", included |-> FALSE, environ |-> "",
                 given |-> NoSettings, settings |-> NoSettings,
                 user_id |-> "", user |-> "", configured |-> FALSE,
                 exc |-> "", raised_in |-> "", served |-> 0]

NoCall == [op |-> "none", request |-> NoRequest, parent |-> "", value |-> NoneStr,
           exc |-> "", result |-> NoneId]

Idle == [pc |-> "idle", request |-> NoRequest, event |-> NoneId, subs |-> <<>>,
         results |-> <<>>, trace |-> <<>>, exc |-> "", handlers |-> <<>>]

Init ==
    /\ now = 0
    /\ activity_events = {}
    /\ work_status_associations = {}
    /\ work_statuses = <<>>
    /\ work_status_association_id = [p \in Parents |-> NoneId]
    /\ modified = [p \in Parents |-> 0]
    /\ appended = [p \in Parents |-> <<>>]
    /\ lastCall = NoCall
    /\ registry = <<>>
    /\ disp = Idle
    /\ activity_event = NewEvent
    /\ eventCall = NoEventCall
    /\ association_classes = <<>>
    /\ parent_classes = [cls \in ParentClasses |-> NoAssociationClasses]
    /\ app = Unconfigured

\* Calls are made one at a time: a call starts when no result is pending and
\* no dispatch is under way.
Quiet == lastCall.op = "none" /\ disp.pc = "idle"

\* The caller is done with the result of the call that ended.
EndCall ==
    /\ ~(lastCall.op = "none" /\ disp.pc \notin {"returned", "raised"})
    /\ lastCall' = NoCall
    /\ disp' = Idle
    /\ UNCHANGED <<eventVars, classVars, app, ledgerVars, registry>>

\* ------------------------------------------------------------------------
\* Ledger operations
\* ------------------------------------------------------------------------
\* An ActivityEvent is created and flushed.
RecordEvent ==
    /\ Quiet
    /\ Cardinality(activity_events) < MaxEvents
    /\ activity_events' = activity_events \cup {Cardinality(activity_events) + 1}
    /\ UNCHANGED <<eventVars, classVars, app, now, work_status_associations, work_statuses,
                   work_status_association_id, modified, appended, lastCall,
                   registry, disp>>

\* set_work_status that flushes the status without putting it into
\* `self.work_statuses`.
set_work_statusDetached(parent, value, event) ==
    /\ \E t1 \in utcnow :
       \E t2 \in {t \in {t1, t1 + 1} : t <= MaxClock} :
          /\ work_statuses' = InsertStatus(NoneId, value, event, t2)
          /\ modified' = [modified EXCEPT ![parent] = t1]
          /\ now' = t2
          /\ appended' = [appended EXCEPT
                             ![parent] = Append(@, [id |-> Len(work_statuses) + 1,
                                                    value |-> value,
                                                    event |-> event])]
    /\ UNCHANGED <<eventVars, classVars, app, activity_events, work_status_associations,
                   work_status_association_id, lastCall, registry, disp>>

\* set_work_status that assigns `self.work_statuses = [status]` whether or
\* not the parent has statuses already.
set_work_statusFreshAssociation(parent, value, event) ==
    /\ \E t1 \in utcnow :
       \E t2 \in {t \in {t1, t1 + 1} : t <= MaxClock} :
          LET association == Cardinality(work_status_associations) + 1
          IN /\ work_status_associations' = work_status_associations \cup {association}
             /\ work_status_association_id' =
                    [work_status_association_id EXCEPT ![parent] = association]
             /\ work_statuses' = InsertStatus(association, value, event, t2)
             /\ modified' = [modified EXCEPT ![parent] = t1]
             /\ now' = t2
             /\ appended' = [appended EXCEPT
                                ![parent] = Append(@, [id |-> Len(work_statuses) + 1,
                                                       value |-> value,
                                                       event |-> event])]
    /\ UNCHANGED <<eventVars, classVars, app, activity_events, lastCall, registry, disp>>

\* WorkStatusMixin.set_work_status(value, event)
set_work_status(parent, value, event) ==
    /\ \E t1 \in utcnow :
       \E t2 \in {t \in {t1, t1 + 1} : t <= MaxClock} :
          LET existing == work_status_association_id[parent]
              \* `self.work_statuses = [status]` on a parent without an
              \* association calls the proxy's creator.
              association == IF existing = NoneId
                             THEN Cardinality(work_status_associations) + 1
                             ELSE existing
          IN /\ work_status_associations' = work_status_associations \cup {association}
             /\ work_status_association_id' =
                    [work_status_association_id EXCEPT ![parent] = association]
             /\ work_statuses' = InsertStatus(association, value, event, t2)
             /\ modified' = [modified EXCEPT ![parent] = t1]
             /\ now' = t2
             /\ appended' = [appended EXCEPT
                                ![parent] = Append(@, [id |-> Len(work_statuses) + 1,
                                                       value |-> value,
                                                       event |-> event])]
    /\ UNCHANGED <<eventVars, classVars, app, activity_events, lastCall, registry, disp>>

SetWorkStatusUpTo(limit) ==
    /\ Quiet
    /\ Len(work_statuses) < limit
    /\ \E parent \in Parents, value \in StatusValues,
          event \in activity_events \cup {NoneId} :
           set_work_status(parent, value, event)

\* A WorkStatus constructed and flushed without an association
\* (association_id is a nullable column).
NewWorkStatus ==
    /\ Quiet
    /\ Len(work_statuses) < MaxStatuses
    /\ \E value \in StatusValues, event \in activity_events \cup {NoneId},
          t \in utcnow :
          /\ work_statuses' = InsertStatus(NoneId, value, event, t)
          /\ now' = t
    /\ UNCHANGED <<eventVars, classVars, app, activity_events, work_status_associations,
                   work_status_association_id, modified, appended, lastCall,
                   registry, disp>>

\* set_work_status called on a resource whose class does not mix
\* WorkStatusMixin in: there is no such attribute, nothing is written.
SetWorkStatusWithoutMixin ==
    /\ Quiet
    /\ \E context \in Contexts \ (Parents \cup {NoneContext}) :
          lastCall' = [NoCall EXCEPT !.op = "set_work_status",
                                     !.parent = context,
                                     !.exc = "AttributeError"]
    /\ UNCHANGED <<eventVars, classVars, app, ledgerVars, registry, disp>>

\* parent.get_work_status(value) (parent.work_status when value is None)
GetWorkStatus ==
    /\ Quiet
    /\ \E parent \in Parents, value \in StatusValues \cup {NoneStr} :
       \E result \in get_work_status(parent, value) :
          lastCall' = [NoCall EXCEPT !.op = "get_work_status",
                                     !.parent = parent,
                                     !.value = value,
                                     !.result = result]
    /\ UNCHANGED <<eventVars, classVars, app, ledgerVars, registry, disp>>

\* request.activity_event read on its own
ActivityEvent ==
    /\ Quiet
    /\ \E request \in Requests :
          /\ request.json.state = NoneStr
          /\ request.json.action = NoneStr
          /\ \E outcome \in GetActivityEvent(request) :
                lastCall' = [NoCall EXCEPT !.op = "activity_event",
                                           !.request = request,
                                           !.exc = outcome.exc,
                                           !.result = outcome.event]
    /\ UNCHANGED <<eventVars, classVars, app, ledgerVars, registry, disp>>

\* ------------------------------------------------------------------------
\* Registration and dispatch
\* ------------------------------------------------------------------------
\* What add_engine_subscriber is given as `namespaced_events`: one string,
\* or a list of strings.
NamespacedEventsInputs ==
    [type : {"str"}, value : NamespacedEvents]
    \cup [type : {"list"},
          value : {<<>>} \cup {<<a, b>> : a, b \in NamespacedEvents}]

\* `if not hasattr(namespaced_events, '__iter__'): namespaced_events =
\* (namespaced_events,)`: a str has no __iter__ (Python 2), a list has.
AsIterable(namespaced_events) ==
    IF namespaced_events.type = "str"
    THEN <<namespaced_events.value>>
    ELSE namespaced_events.value

\* ParamAwareSubscriber(param, value, handler) for each name, in order.
Subscribers(context, names, handler) ==
    [i \in 1..Len(names) |->
        [context |-> context, param |-> SplitHead(names[i]),
         value |-> names[i], handler |-> handler]]

\* AddEngineSubscriber.__call__(config, context, namespaced_events, handler)
AddEngineSubscriberUpTo(limit) ==
    /\ Quiet
    /\ \E context \in Markers, input \in NamespacedEventsInputs,
          handler \in Handlers :
          /\ Len(registry) + Len(AsIterable(input)) <= limit
          /\ registry' = registry \o
                              Subscribers(context, AsIterable(input), handler)
    /\ UNCHANGED <<eventVars, classVars, app, ledgerVars, lastCall, disp>>

\* StateChangeHandler.__call__ up to the loop: `request.activity_event` is
\* resolved (and may raise), the subscriptions are enumerated.
Dispatch(requests) ==
    /\ Quiet
    /\ \E request \in requests :
       \E outcome \in GetActivityEvent(request) :
          disp' = IF outcome.exc # ""
                  THEN [Idle EXCEPT !.pc = "raised", !.request = request,
                                    !.exc = outcome.exc]
                  ELSE [Idle EXCEPT !.pc = "loop", !.request = request,
                                    !.event = outcome.event,
                                    !.subs = subscriptions(
                                        providedBy(request.context), registry)]
    /\ UNCHANGED <<eventVars, classVars, app, ledgerVars, lastCall, registry>>

\* ParamAwareSubscriber.__call__ declining only when the param is missing:
\* `if param_value is None` for `if param_value != self.value`.
ParamAwareSubscriberAnyValue(subscriber, combined_args, behaviour) ==
    LET request == combined_args[1]
        param_value == JsonGet(request.json, subscriber.param)
        args == Tail(combined_args)
    IN IF param_value = NoneStr
       THEN [called |-> FALSE, handler |-> subscriber.handler,
             args |-> <<>>, outcome |-> NoneResult]
       ELSE [called |-> TRUE, handler |-> subscriber.handler,
             args |-> <<request>> \o args, outcome |-> behaviour]

\* ParamAwareSubscriber.__call__(combined_args): what it returns, and the
\* handler call it makes, given what the handler does when called.
ParamAwareSubscriber(subscriber, combined_args, behaviour) ==
    LET request == combined_args[1]
        param_value == JsonGet(request.json, subscriber.param)
        args == Tail(combined_args)
    IN IF param_value # subscriber.value
       THEN [called |-> FALSE, handler |-> subscriber.handler,
             args |-> <<>>, outcome |-> NoneResult]
       ELSE [called |-> TRUE, handler |-> subscriber.handler,
             args |-> <<request>> \o args, outcome |-> behaviour]

\* The loop of StateChangeHandler.__call__ with each call wrapped in a
\* try/except that drops the exception.
CallSubscriberCatching ==
    /\ disp.pc = "loop"
    /\ Len(disp.results) < Len(disp.subs)
    /\ \E behaviour \in HandlerReturns \cup {"raise"} :
          LET index == disp.subs[Len(disp.results) + 1]
              combined_args == <<disp.request, disp.request.context, disp.event>>
              call == ParamAwareSubscriber(registry[index], combined_args, behaviour)
              entry == [subscriber |-> index, called |-> call.called,
                        handler |-> call.handler, args |-> call.args,
                        did |-> behaviour, outcome |-> call.outcome]
          IN /\ call.called \/ behaviour = NoneResult
             /\ disp' = [disp EXCEPT
                            !.results = Append(@, IF call.outcome = "raise"
                                                  THEN NoneResult
                                                  ELSE call.outcome),
                            !.trace = Append(@, entry)]
    /\ UNCHANGED <<eventVars, classVars, app, ledgerVars, lastCall, registry>>

\* One iteration of the loop of StateChangeHandler.__call__.
CallSubscriber ==
    /\ disp.pc = "loop"
    /\ Len(disp.results) < Len(disp.subs)
    /\ \E behaviour \in HandlerReturns \cup {"raise"} :
          LET index == disp.subs[Len(disp.results) + 1]
              combined_args == <<disp.request, disp.request.context, disp.event>>
              call == ParamAwareSubscriber(registry[index], combined_args, behaviour)
              \* what was seen of this iteration: the subscriber invoked,
              \* the handler call it made (if any) with what the handler
              \* did, and what the subscriber gave back
              entry == [subscriber |-> index, called |-> call.called,
                        handler |-> call.handler, args |-> call.args,
                        did |-> behaviour, outcome |-> call.outcome]
          IN \* a handler that is not called has no behaviour to choose
             /\ call.called \/ behaviour = NoneResult
             /\ disp' = IF call.outcome = "raise"
                        THEN [disp EXCEPT !.pc = "raised",
                                          !.exc = "HandlerError",
                                          !.trace = Append(@, entry)]
                        ELSE [disp EXCEPT !.results = Append(@, call.outcome),
                                          !.trace = Append(@, entry)]
    /\ UNCHANGED <<eventVars, classVars, app, ledgerVars, lastCall, registry>>

\* The loop left at the first subscriber that returned something.
ReturnOnFirstResult ==
    /\ disp.pc = "loop"
    /\ \/ Len(disp.results) = Len(disp.subs)
       \/ disp.results # <<>> /\ disp.results[Len(disp.results)] # NoneResult
    /\ disp' = [disp EXCEPT !.pc = "returned",
                            !.handlers = NotNone(disp.results)]
    /\ UNCHANGED <<eventVars, classVars, app, ledgerVars, lastCall, registry>>

\* The loop is over: `return {'handlers': [...]}`.
Return ==
    /\ disp.pc = "loop"
    /\ Len(disp.results) = Len(disp.subs)
    /\ disp' = [disp EXCEPT !.pc = "returned",
                            !.handlers = NotNone(disp.results)]
    /\ UNCHANGED <<eventVars, classVars, app, ledgerVars, lastCall, registry>>

\* The requests of the dispatch specification: the ledger is empty there,
\* so the event_id either resolves to nothing or fails to parse.
DispatchRequests ==
    {r \in Requests : /\ r.context \in {"job1", "page", NoneContext}
                      /\ r.json.event_id.kind \in {"absent", "inf"}}

\* The requests of the delivery specification: addressed to a parent.
DeliveryRequests ==
    {r \in Requests : /\ r.context \in Parents
                      /\ r.json.action = NoneStr
                      /\ r.json.event_id.kind \in {"absent", "int"}}

SetWorkStatus == SetWorkStatusUpTo(MaxStatuses)
AddEngineSubscriber == AddEngineSubscriberUpTo(MaxSubscriptions)
DispatchRequest == Dispatch(DispatchRequests)

DeliverySetWorkStatus == SetWorkStatusUpTo(MaxDeliveryStatuses)
DeliveryAddEngineSubscriber == AddEngineSubscriberUpTo(MaxDeliverySubscriptions)
DeliveryRequest == Dispatch(DeliveryRequests)

\* ------------------------------------------------------------------------
\* ActivityEvent attributes (orm.py)
\* ------------------------------------------------------------------------
\* value.split(u':'): the pieces between the colons, all of them.
RECURSIVE split(_)
split(value) ==
    LET colons == {i \in 1..Len(value) : value[i] = ":"}
    IN IF colons = {} THEN <<value>>
       ELSE <<SubSeq(value, 1, Min(colons) - 1)>>
            \o split(SubSeq(value, Min(colons) + 1, Len(value)))

\* u'{0}:{1}'.format(target, action)
type_(target, action) == target \o <<":">> \o action

\* ActivityEvent.parent: `self.assocation.parent`, with no check that there
\* is an association.
event_parent(self) ==
    IF self.assocation = NoAssociation
    THEN [exc |-> "AttributeError", parent |-> NoneContext]
    ELSE [exc |-> "", parent |-> self.assocation.parent]

\* ActivityEvent.__json__: the dict with its `type`, and its `parent` and
\* `user` entries where `if self.parent:` and `if self.user:` let them in.
event_json(self) ==
    IF event_parent(self).exc # ""
    THEN [exc |-> event_parent(self).exc, json |-> NoJson]
    ELSE [exc |-> "",
          json |-> [type |-> type_(self.target, self.action),
                    parent |-> event_parent(self).parent,
                    user |-> self.user]]

\* An ActivityEvent is constructed and flushed, with or without an
\* association and a user.
NewActivityEvent ==
    /\ \E assocation \in EventAssociations \cup {NoAssociation},
          user \in Users \cup {NoneId} :
          activity_event' = [NewEvent EXCEPT !.assocation = assocation,
                                             !.user = user]
    /\ eventCall' = NoEventCall
    /\ UNCHANGED <<requestVars, classVars, app>>

\* event.type_ = value: `self.target, self.action = value.split(u':')`
\* unpacks exactly two pieces and raises ValueError for any other number.
SetType ==
    /\ \E value \in TypeInputs :
          IF Len(split(value)) = 2
          THEN /\ activity_event' = [activity_event EXCEPT
                                        !.target = split(value)[1],
                                        !.action = split(value)[2]]
               /\ eventCall' = [NoEventCall EXCEPT !.op = "set_type",
                                                   !.value = value]
          ELSE /\ activity_event' = activity_event
               /\ eventCall' = [NoEventCall EXCEPT !.op = "set_type",
                                                   !.value = value,
                                                   !.exc = "ValueError"]
    /\ UNCHANGED <<requestVars, classVars, app>>

\* event.type_ read
GetType ==
    /\ eventCall' = [NoEventCall EXCEPT
                        !.op = "type_",
                        !.type_ = type_(activity_event.target, activity_event.action)]
    /\ UNCHANGED <<requestVars, activity_event, classVars, app>>

\* event.parent read
GetParent ==
    /\ eventCall' = [NoEventCall EXCEPT !.op = "parent",
                                        !.exc = event_parent(activity_event).exc,
                                        !.parent = event_parent(activity_event).parent]
    /\ UNCHANGED <<requestVars, activity_event, classVars, app>>

\* event.__json__()
Json ==
    /\ eventCall' = [NoEventCall EXCEPT !.op = "__json__",
                                        !.exc = event_json(activity_event).exc,
                                        !.json = event_json(activity_event).json]
    /\ UNCHANGED <<requestVars, activity_event, classVars, app>>

\* ------------------------------------------------------------------------
\* Association subclasses (orm.py)
\* ------------------------------------------------------------------------
\* type(class_name, (base,), {'__mapper_args__': {'polymorphic_identity':
\* cls.singular_class_slug}}): a new class each time it is evaluated.
association_cls(cls, base) ==
    [name |-> <<cls, base>>, base |-> base, parent_class |-> cls,
     polymorphic_identity |-> singular_class_slug(cls)]

\* WorkStatusMixin.activity_event_association evaluated for a parent class:
\* the subclass is created and becomes cls.ActivityEventAssociation.
activity_event_association ==
    /\ Len(association_classes) < MaxAssociationClasses
    /\ \E cls \in ParentClasses :
          /\ association_classes' =
                 Append(association_classes,
                        association_cls(cls, "ActivityEventAssociation"))
          /\ parent_classes' =
                 [parent_classes EXCEPT
                     ![cls].ActivityEventAssociation = Len(association_classes) + 1]
    /\ UNCHANGED <<requestVars, eventVars, app>>

\* WorkStatusMixin.work_status_association evaluated for a parent class:
\* the subclass is created and becomes cls.WorkStatusAssociation.
work_status_association ==
    /\ Len(association_classes) < MaxAssociationClasses
    /\ \E cls \in ParentClasses :
          /\ association_classes' =
                 Append(association_classes,
                        association_cls(cls, "WorkStatusAssociation"))
          /\ parent_classes' =
                 [parent_classes EXCEPT
                     ![cls].WorkStatusAssociation = Len(association_classes) + 1]
    /\ UNCHANGED <<requestVars, eventVars, app>>

\* ------------------------------------------------------------------------
\* Application startup (orm.py)
\* ------------------------------------------------------------------------
\* DEFAULTS, given what os.environ holds for ENGINE_USER_CLASS ("" when it
\* is not set); "" for a key DEFAULTS does not have.
DEFAULTS(environ) ==
    [key \in SettingsKeys |->
        IF key = "engine.user_class"
        THEN (IF environ = "" THEN DefaultUserClass ELSE environ)
        ELSE ""]

\* `for key, value in DEFAULTS.items(): settings.setdefault(key, value)`
WithDefaults(settings, defaults) ==
    [key \in SettingsKeys |->
        IF settings[key] = "" THEN defaults[key] ELSE settings[key]]

\* sanity_check_user_patching: the two asserts.
sanity_check_user_patching == app.user_id # "" /\ app.user # ""

\* orm.includeme(config): the defaults are applied, then
\* settings['torque_engine.user_class'] is read (KeyError when the dict has
\* no such key) and ActivityEvent.user_id / ActivityEvent.user are patched.
includeme ==
    /\ app.phase = "starting"
    /\ ~app.included
    /\ \E given \in SettingsInputs, environ \in UserClasses \cup {""} :
          LET settings == WithDefaults(given, DEFAULTS(environ))
              user_cls == settings["torque_engine.user_class"]
              called == [app EXCEPT !.included = TRUE, !.environ = environ,
                                    !.given = given, !.settings = settings]
          IN app' = IF user_cls = ""
                    THEN [called EXCEPT !.exc = "KeyError",
                                        !.raised_in = "startup",
                                        !.phase = "failed"]
                    ELSE [called EXCEPT !.user_id = tablename(user_cls),
                                        !.user = user_cls]
    /\ UNCHANGED <<requestVars, eventVars, classVars>>

\* The mappers are configured while the application starts (a mapped class
\* is used, or configure_mappers() is called): `before_configured` fires
\* and the sanity check runs.
ConfigureMappers ==
    /\ app.phase = "starting"
    /\ ~app.configured
    /\ app' = IF sanity_check_user_patching
              THEN [app EXCEPT !.configured = TRUE]
              ELSE [app EXCEPT !.exc = "AssertionError",
                               !.raised_in = "startup",
                               !.phase = "failed"]
    /\ UNCHANGED <<requestVars, eventVars, classVars>>

\* The configuration ends and the application starts to serve.
MakeWsgiApp ==
    /\ app.phase = "starting"
    /\ app' = [app EXCEPT !.phase = "serving"]
    /\ UNCHANGED <<requestVars, eventVars, classVars>>

\* A dispatch request is handled.  Its first query configures the mappers
\* if nothing did so before, and the sanity check runs then.
HandleRequest ==
    /\ app.phase = "serving"
    /\ app.exc = ""
    /\ app.served < MaxRequests
    /\ app' = IF app.configured \/ sanity_check_user_patching
              THEN [app EXCEPT !.configured = TRUE, !.served = @ + 1]
              ELSE [app EXCEPT !.exc = "AssertionError",
                               !.raised_in = "dispatch"]
    /\ UNCHANGED <<requestVars, eventVars, classVars>>

\* ------------------------------------------------------------------------
\* Specifications
\* ------------------------------------------------------------------------
NextLedger ==
    \/ RecordEvent
    \/ SetWorkStatus
    \/ NewWorkStatus
    \/ GetWorkStatus
    \/ EndCall

SpecLedger == Init /\ [][NextLedger]_vars

NextAppend ==
    \/ RecordEvent
    \/ SetWorkStatus
    \/ SetWorkStatusWithoutMixin
    \/ EndCall

SpecAppend == Init /\ [][NextAppend]_vars

NextEvent ==
    \/ NewActivityEvent
    \/ SetType
    \/ GetType
    \/ GetParent
    \/ Json

SpecEvent == Init /\ [][NextEvent]_vars

NextRegister ==
    \/ activity_event_association
    \/ work_status_association

SpecRegister == Init /\ [][NextRegister]_vars

NextStartup ==
    \/ includeme
    \/ ConfigureMappers
    \/ MakeWsgiApp
    \/ HandleRequest

SpecStartup == Init /\ [][NextStartup]_vars

NextResolve ==
    \/ RecordEvent
    \/ SetWorkStatus
    \/ NewWorkStatus
    \/ ActivityEvent
    \/ EndCall

SpecResolve == Init /\ [][NextResolve]_vars

NextDispatch ==
    \/ AddEngineSubscriber
    \/ DispatchRequest
    \/ CallSubscriber
    \/ Return
    \/ EndCall

SpecDispatch == Init /\ [][NextDispatch]_vars

Next ==
    \/ RecordEvent
    \/ DeliverySetWorkStatus
    \/ DeliveryAddEngineSubscriber
    \/ DeliveryRequest
    \/ CallSubscriber
    \/ Return
    \/ EndCall

Spec == Init /\ [][Next]_vars

\* ------------------------------------------------------------------------
\* Status ledger claims (SpecLedger)
\* ------------------------------------------------------------------------
\* The rows in the parent's status collection: those of its own association.
OwnStatuses(parent) ==
    {i \in StatusIds :
        /\ work_status_association_id[parent] # NoneId
        /\ work_statuses[i].association_id = work_status_association_id[parent]}

LastOf(seq) == seq[Len(seq)]

\* C1: after n >= 1 set_work_status calls on a parent that started with no
\* history, get_work_status() without a filter returns the row the most
\* recent call created, and the parent's collection holds exactly n rows
\* with pairwise distinct ids.
C1_MonotonicHistory ==
    \A parent \in Parents :
        appended[parent] # <<>> =>
            /\ Cardinality(OwnStatuses(parent)) = Len(appended[parent])
            /\ \A i, j \in 1..Len(appended[parent]) :
                  i # j => appended[parent][i].id # appended[parent][j].id
            /\ (/\ lastCall.op = "get_work_status"
                /\ lastCall.parent = parent
                /\ lastCall.value = NoneStr)
                  => lastCall.result = LastOf(appended[parent]).id

\* C2: get_work_status(value) returns the most recently appended row of the
\* parent whose value is `value`, never an earlier one.
C2_FilteredRetrieval ==
    \A parent \in Parents :
        (/\ lastCall.op = "get_work_status"
         /\ lastCall.parent = parent
         /\ lastCall.value # NoneStr)
          => LET calls == {k \in 1..Len(appended[parent]) :
                              appended[parent][k].value = lastCall.value}
             IN calls # {} =>
                    lastCall.result = appended[parent][Max(calls)].id

\* C3: when the matching rows with the greatest `created` are several, the
\* one with the highest id is returned.
C3_TieBreakHighestId ==
    lastCall.op = "get_work_status" =>
        LET rows == MatchingStatuses(lastCall.parent, lastCall.value)
            latest == {i \in rows : \A j \in rows :
                          work_statuses[j].created <= work_statuses[i].created}
        IN Cardinality(latest) >= 2 => lastCall.result = Max(latest)

\* C4: get_work_status returns None when the parent has no matching row of
\* its own, and otherwise a row of the parent's own association; also for a
\* parent that has no association yet.
C4_NoneOrOwnRow ==
    lastCall.op = "get_work_status" =>
        LET own == {i \in OwnStatuses(lastCall.parent) :
                       lastCall.value # NoneStr =>
                           work_statuses[i].value = lastCall.value}
        IN IF own = {} THEN lastCall.result = NoneId
           ELSE lastCall.result \in own

\* ------------------------------------------------------------------------
\* Dispatch claims (SpecDispatch)
\* ------------------------------------------------------------------------
\* The request body has the field the subscriber is bound to, holding the
\* value the subscriber is bound to.
FieldEquals(json, subscriber) ==
    \/ /\ subscriber.param = <<"state">>
       /\ json.state # NoneStr
       /\ json.state = subscriber.value
    \/ /\ subscriber.param = <<"action">>
       /\ json.action # NoneStr
       /\ json.action = subscriber.value

Invoked == [k \in 1..Len(disp.trace) |-> disp.trace[k].subscriber]

\* C5: a subscriber calls its handler, and gives back what the handler
\* returned, exactly when the body's field `param` equals its value; else it
\* returns None and the handler is not called.
C5_DispatchFiltering ==
    \A k \in 1..Len(disp.trace) :
        LET entry == disp.trace[k]
            subscriber == registry[entry.subscriber]
        IN /\ entry.called <=> FieldEquals(disp.request.json, subscriber)
           /\ entry.called =>
                 /\ entry.handler = subscriber.handler
                 /\ entry.outcome = entry.did
           /\ ~entry.called => entry.outcome = NoneResult

\* A dispatch in which one subscriber fired and returned a value and another
\* declined although the body has its field, with another value.
C5_Witness ==
    \E i, j \in 1..Len(disp.trace) :
        /\ disp.trace[i].called /\ disp.trace[i].outcome = "ok"
        /\ ~disp.trace[j].called
        /\ registry[disp.trace[j].subscriber].param = <<"state">>
        /\ disp.request.json.state \notin {NoneStr, registry[disp.trace[j].subscriber].value}

RECURSIVE NonNilOutcomes(_)
NonNilOutcomes(trace) ==
    IF trace = <<>> THEN <<>>
    ELSE (IF Head(trace).outcome = NoneResult THEN <<>>
          ELSE <<Head(trace).outcome>>) \o NonNilOutcomes(Tail(trace))

\* C6: `handlers` is the sequence of the non-None values the invoked
\* subscribers returned, in the order they were invoked, which is the
\* order the registry enumerated them in.
C6_DispatchAggregation ==
    disp.pc = "returned" =>
        /\ disp.handlers = NonNilOutcomes(disp.trace)
        /\ Invoked = disp.subs

\* A dispatch that returned after one subscriber gave None and a later one
\* gave an empty result.
C6_Witness ==
    /\ disp.pc = "returned"
    /\ Len(disp.trace) = 2
    /\ disp.trace[1].outcome = NoneResult
    /\ disp.trace[2].outcome = "empty"
    /\ disp.handlers = <<"empty">>

\* The subscribers registered against an interface the context provides.
RegisteredFor(context) ==
    {i \in 1..Len(registry) :
        \E m \in 1..Len(providedBy(context)) :
            registry[i].context = providedBy(context)[m]}

\* C7 as claimed: every dispatch that reached its loop and ended has invoked
\* every subscriber registered for the context, also when one of them
\* failed.
C7_NoShortCircuit ==
    (disp.pc \in {"returned", "raised"} /\ disp.exc \in {"", "HandlerError"}) =>
        {Invoked[k] : k \in 1..Len(Invoked)} = RegisteredFor(disp.request.context)

\* C7 as amended: subscribers are invoked in enumeration order, each once; a
\* dispatch that returns has invoked every subscriber registered for the
\* context, whatever the earlier ones declined or returned; only a handler
\* that raises ends the loop early, and it is the last one invoked.
C7_NoShortCircuitUnlessRaised ==
    /\ Invoked = SubSeq(disp.subs, 1, Len(disp.trace))
    /\ \A k \in 1..Len(disp.trace) - 1 : disp.trace[k].outcome # "raise"
    /\ disp.pc \in {"loop", "returned"} =>
          /\ {disp.subs[k] : k \in 1..Len(disp.subs)}
                = RegisteredFor(disp.request.context)
          /\ \A i, j \in 1..Len(disp.subs) : i # j => disp.subs[i] # disp.subs[j]
    /\ disp.pc = "returned" => Invoked = disp.subs
    /\ (disp.pc = "raised" /\ disp.exc = "HandlerError") =>
          /\ disp.trace # <<>>
          /\ disp.trace[Len(disp.trace)].outcome = "raise"

\* A dispatch that returned after its first subscriber returned a value and
\* its second one was still invoked.
C7_Witness ==
    /\ disp.pc = "returned"
    /\ Len(disp.trace) = 2
    /\ disp.trace[1].called
    /\ disp.trace[1].outcome = "ok"

\* C8: when a handler raises during a dispatch, the dispatch ends with that
\* failure and never with a normal `handlers` result.
C8_HandlerExceptionsPropagate ==
    (\E k \in 1..Len(disp.trace) : disp.trace[k].did = "raise") =>
        /\ disp.pc = "raised"
        /\ disp.exc = "HandlerError"
        /\ disp.handlers = <<>>
        /\ disp.trace[Len(disp.trace)].did = "raise"

\* A dispatch ended by its first handler raising, a second subscriber left
\* uninvoked.
C8_Witness ==
    /\ disp.pc = "raised"
    /\ Len(disp.subs) = 2
    /\ Len(disp.trace) = 1
    /\ disp.trace[1].did = "raise"

\* ------------------------------------------------------------------------
\* Event resolution (SpecResolve) and delivery (Spec)
\* ------------------------------------------------------------------------
\* The parent's own rows with the greatest `created`: its current status,
\* as far as `created` tells.
CurrentStatuses(parent) ==
    {i \in OwnStatuses(parent) : \A j \in OwnStatuses(parent) :
        work_statuses[j].created <= work_statuses[i].created}

\* C9: request.activity_event is the looked-up event when event_id parses as
\* an integer and the lookup finds it; else the causing event of the
\* context's current status when it has one; else None.  No input makes it
\* fail.
C9_EventResolutionOrder ==
    lastCall.op = "activity_event" =>
        LET context == lastCall.request.context
            candidate == lastCall.request.json.event_id
            found == /\ candidate.kind \in {"int", "digits", "float"}
                     /\ candidate.n \in activity_events
            current == IF context \in Parents
                       THEN CurrentStatuses(context) ELSE {}
        IN /\ lastCall.exc = ""
           /\ IF found THEN lastCall.result = candidate.n
              ELSE IF current # {}
              THEN \E i \in current : lastCall.result = work_statuses[i].event_id
              ELSE lastCall.result = NoneId

\* C10: when the parent's latest set_work_status(v, event=E) row still has E
\* as its event, a dispatch to that parent with v under v's prefix in the
\* body and no event_id calls every subscriber registered on v with
\* (request, parent, E), and every handler called in the dispatch gets the
\* same request, context and event.
C10_EndToEndDelivery ==
    LET context == disp.request.context
        json == disp.request.json
    IN (/\ disp.pc \in {"loop", "returned", "raised"}
        /\ context \in Parents
        /\ appended[context] # <<>>
        /\ LastOf(appended[context]).event # NoneId
        /\ work_statuses[LastOf(appended[context]).id].event_id
              = LastOf(appended[context]).event
        /\ json.state = LastOf(appended[context]).value
        /\ json.event_id.kind = "absent")
       => LET expected == <<disp.request, context, LastOf(appended[context]).event>>
          IN /\ \A k \in 1..Len(disp.trace) :
                   disp.trace[k].called => disp.trace[k].args = expected
             /\ \A k \in 1..Len(disp.trace) :
                   registry[disp.trace[k].subscriber].value = json.state
                       => disp.trace[k].called
             /\ disp.pc = "returned" =>
                   \A i \in RegisteredFor(context) :
                       registry[i].value = json.state
                           => \E k \in 1..Len(disp.trace) :
                                 disp.trace[k].subscriber = i

\* ------------------------------------------------------------------------
\* Status ledger claims on appending (SpecAppend)
\* ------------------------------------------------------------------------
StatusesCausedBy(event) == {i \in StatusIds : work_statuses[i].event_id = event}

\* C11: after any sequence of set_work_status calls every event is the
\* cause of at most one status row; a second call naming an event that
\* already caused a row does not leave two rows referencing it.
C11_OneCausedStatusPerEvent ==
    \A event \in activity_events : Cardinality(StatusesCausedBy(event)) <= 1

\* An event was named by two set_work_status calls.
C11_Witness ==
    \E p \in Parents, q \in Parents :
    \E k \in 1..Len(appended[p]), l \in 1..Len(appended[q]) :
        /\ appended[p][k].event # NoneId
        /\ appended[p][k].event = appended[q][l].event
        /\ appended[p][k].id < appended[q][l].id
        /\ StatusesCausedBy(appended[p][k].event) = {appended[q][l].id}

\* The rows set_work_status returned for the parent are linked to an
\* association whose parent is that parent.
LinkedToParent(parent) ==
    \A k \in 1..Len(appended[parent]) :
        LET row == work_statuses[appended[parent][k].id]
        IN /\ row.association_id # NoneId
           /\ row.association_id \in work_status_associations
           /\ \A q \in Parents :
                 work_status_association_id[q] = row.association_id <=> q = parent

\* C12: every status row a set_work_status call created is linked to a
\* status association whose parent is the parent it was appended to, and a
\* set_work_status call that raises creates no row.
C12_NoOrphanStatuses ==
    [][/\ \A parent \in Parents : LinkedToParent(parent)'
       /\ (lastCall'.op = "set_work_status" /\ lastCall'.exc # "")
             => work_statuses' = work_statuses]_vars

\* A parent that was never given an association has appended a row, and a
\* call on a resource without the mixin has raised.
C12_Witness ==
    /\ \E parent \in Parents : Len(appended[parent]) > 0
    /\ Len(work_statuses) > 0
    /\ lastCall.op = "set_work_status"
    /\ lastCall.exc = "AttributeError"

\* C17: a parent has at most one status association: its first
\* set_work_status call creates it, later calls reuse it, the reference
\* never changes once set, and no association is linked to two parents.
C17_AssociationStability ==
    [][/\ \A p \in Parents :
             /\ work_status_association_id[p] # NoneId
                   => work_status_association_id'[p] = work_status_association_id[p]
             /\ (work_status_association_id[p] = NoneId /\ appended'[p] # appended[p])
                   => /\ work_status_association_id'[p] \notin work_status_associations
                      /\ work_status_association_id'[p] \in work_status_associations'
             /\ Len(appended'[p]) > 0 => work_status_association_id'[p] # NoneId
       /\ \A p \in Parents, q \in Parents :
             (p # q /\ work_status_association_id'[p] # NoneId)
                => work_status_association_id'[p] # work_status_association_id'[q]
       /\ Cardinality(work_status_associations')
             = Cardinality({p \in Parents : work_status_association_id'[p] # NoneId})]_vars

\* Both parents have an association and one of them has appended twice.
C17_Witness ==
    /\ \A p \in Parents : work_status_association_id[p] # NoneId
    /\ \E p \in Parents : Len(appended[p]) >= 2

\* ------------------------------------------------------------------------
\* Registration claims (SpecDispatch)
\* ------------------------------------------------------------------------
RECURSIVE BeforeFirstColon(_)
BeforeFirstColon(name) ==
    IF name = <<>> \/ Head(name) = ":" THEN <<>>
    ELSE <<Head(name)>> \o BeforeFirstColon(Tail(name))

Bound(marker, name, handler) ==
    [context |-> marker, param |-> BeforeFirstColon(name),
     value |-> name, handler |-> handler]

\* What a registration call is to add to the registry: one subscription for
\* a single string, one per name for a sequence of names.
Registered(marker, input, handler) ==
    IF input.type = "str"
    THEN <<Bound(marker, input.value, handler)>>
    ELSE [k \in 1..Len(input.value) |-> Bound(marker, input.value[k], handler)]

CallsOf(handler) ==
    {k \in 1..Len(disp.trace) :
        disp.trace[k].called /\ disp.trace[k].handler = handler}

\* The subscriptions of the handler that the dispatched request matches.
MatchingSubscriptions(handler) ==
    {i \in RegisteredFor(disp.request.context) :
        /\ registry[i].handler = handler
        /\ FieldEquals(disp.request.json, registry[i])}

\* C18 as claimed: within one dispatch a handler is called at most once,
\* however it was registered.
C18_HandlerAtMostOnce ==
    \A handler \in Handlers : Cardinality(CallsOf(handler)) <= 1

\* C18: within one dispatch every subscription is invoked at most once, so
\* a handler is called at most once for each of its subscriptions that the
\* request matches, and exactly once for each when the dispatch returns.
C18_AtMostOncePerSubscription ==
    /\ \A k, l \in 1..Len(disp.trace) :
          k # l => disp.trace[k].subscriber # disp.trace[l].subscriber
    /\ \A handler \in Handlers :
          /\ Cardinality(CallsOf(handler)) <= Cardinality(MatchingSubscriptions(handler))
          /\ disp.pc = "returned" =>
                Cardinality(CallsOf(handler)) = Cardinality(MatchingSubscriptions(handler))

\* A dispatch that returned after calling one handler twice: it is
\* registered against two markers the context provides.
C18_Witness ==
    /\ disp.pc = "returned"
    /\ \E handler \in Handlers :
          /\ Cardinality(CallsOf(handler)) = 2
          /\ \E i, j \in MatchingSubscriptions(handler) :
                registry[i].context # registry[j].context

\* ------------------------------------------------------------------------
\* ActivityEvent claims (SpecEvent)
\* ------------------------------------------------------------------------
RECURSIVE AfterFirstColon(_)
AfterFirstColon(name) ==
    IF name = <<>> THEN <<>>
    ELSE IF Head(name) = ":" THEN Tail(name)
    ELSE AfterFirstColon(Tail(name))

HasColon(name) == \E i \in 1..Len(name) : name[i] = ":"

\* C14: setting an event's type to a string with at least one colon sets
\* target to the part before the first colon and action to everything
\* after it, so that the type read back is that string.
C14_TypeRoundTrip ==
    (eventCall.op = "set_type" /\ HasColon(eventCall.value)) =>
        /\ eventCall.exc = ""
        /\ activity_event.target = BeforeFirstColon(eventCall.value)
        /\ activity_event.action = AfterFirstColon(eventCall.value)
        /\ type_(activity_event.target, activity_event.action) = eventCall.value

\* C19: on an event with no association reading the parent yields None
\* and the JSON projection succeeds without a parent entry; the projection
\* has no user entry when the event has no user.
C19_EventWithoutAssociation ==
    /\ (eventCall.op = "parent" /\ activity_event.assocation = NoAssociation) =>
          /\ eventCall.exc = ""
          /\ eventCall.parent = NoneContext
    /\ (eventCall.op = "__json__" /\ activity_event.assocation = NoAssociation) =>
          /\ eventCall.exc = ""
          /\ eventCall.json.parent = NoneContext
    /\ (eventCall.op = "__json__" /\ activity_event.user = NoneId) =>
          /\ eventCall.exc = ""
          /\ eventCall.json.user = NoneId

\* ------------------------------------------------------------------------
\* Association subclass claims (SpecRegister)
\* ------------------------------------------------------------------------
\* C15: evaluating the association attributes of the same parent class
\* again yields the same pair of subclasses, each with the parent class's
\* singular slug as discriminator; no second subclass is created for a
\* discriminator.
C15_IdempotentRegistration ==
    \A i, j \in 1..Len(association_classes) :
        /\ association_classes[i].polymorphic_identity
              = singular_class_slug(association_classes[i].parent_class)
        /\ (/\ association_classes[i].base = association_classes[j].base
            /\ association_classes[i].polymorphic_identity
                  = association_classes[j].polymorphic_identity)
              => i = j

\* ------------------------------------------------------------------------
\* Startup claims (SpecStartup)
\* ------------------------------------------------------------------------
\* C16: no dispatch is served before the check that ActivityEvent has its
\* user_id column and user relation has passed, and when they are missing
\* the check fails while the application starts, never during a dispatch.
C16_StartupIntegrity ==
    /\ app.served > 0 => (app.configured /\ app.user_id # "" /\ app.user # "")
    /\ app.exc = "AssertionError" => app.raised_in = "startup"

\* C20: includeme on settings that name no user class applies the default
\* user class and patches ActivityEvent.user_id and ActivityEvent.user; the
\* key includeme reads is in the settings once the defaults are applied.
C20_DefaultUserClass ==
    app.included =>
        /\ app.settings["torque_engine.user_class"] # ""
        /\ (\A key \in SettingsKeys : app.given[key] = "") =>
              /\ app.exc = ""
              /\ app.user = DEFAULTS(app.environ)["engine.user_class"]
              /\ app.user_id = tablename(app.user)

====
